---- MODULE Spec2Model ----
(***************************************************************************)
(* docker-layerize: layer-diff archives between two tagged versions of a   *)
(* container image (generate_diff) and their reconstruction against a      *)
(* locally present prior version (process_image).                          *)
(*                                                                         *)
(* The model covers the two variants of the algorithm kept in the          *)
(* repository: src/utils.py (blob-listing diff, DiffRecord driven          *)
(* reconstruction) and src/main.py (manifest diff, manifest driven         *)
(* reconstruction).  One work-list entry (image, tag1, tag2) is processed  *)
(* against an engine that serves one export tree for image:tag1 and one    *)
(* for image:tag2.  The file system is the state: the diff output          *)
(* directory, the release directory and the scratch directories.           *)
(***************************************************************************)
EXTENDS Integers, Sequences, FiniteSets, TLC

\* ------------------------------------------------------------------ bounds
\* layer blobs are named by content hash; hashes are 1..MaxHash, ordered as
\* their hex names are ordered
MaxHash == 2
\* longest image name, in characters, drawn by the naming specification
MaxNameLen == 3
\* most entries of a manifest.json shipped in a delivered archive
MaxEntries == 2

Hashes == 1..MaxHash

\* ---------------------------------------------------------- text and paths
\* a string is a sequence of one-character strings
Chars == {"a", "_", "/", "\\"}

RECURSIVE SeqsUpTo(_, _)
SeqsUpTo(S, n) ==
    IF n = 0 THEN {<<>>}
    ELSE LET shorter == SeqsUpTo(S, n - 1)
         IN  shorter \cup {Append(s, c) : s \in {t \in shorter : Len(t) = n - 1}, c \in S}

\* str.replace(a, b) for a one-character a
Replace(s, a, b) == [i \in 1..Len(s) |-> IF s[i] = a THEN b ELSE s[i]]

DIFF_OUTPUT_DIR == <<"output-diff-images">>
NEW_RELEASES_DIR == <<"new-releases">>

\* a sanitizer that forgets the second separator
utils_sanitize_slash_only(image) == Replace(image, "/", "_")

\* image.replace("/", "_").replace("\\", "_")
utils_sanitize(image) == Replace(Replace(image, "/", "_"), "\\", "_")

\* image.replace("/", "_")
main_sanitize(image) == Replace(image, "/", "_")

\* os.path.join(dir, f"{name}_diff_{tag2}.tar"): the directory and the file
\* name, the file name as its characters
DiffTarName(name, tag2) == name \o <<"_diff_">> \o tag2 \o <<".tar">>
DiffTarPath(dir, name, tag2) == <<dir, DiffTarName(name, tag2)>>

\* os.path.join("blobs", "sha256", f)
BlobPath(f) == <<"blobs", "sha256", f>>
\* os.path.basename of a layer path
BaseName(p) == p[3]

HashesOf(paths) == {BaseName(l) : l \in paths}

\* sorted(...) of a set of hashes; layer paths sort as their hashes do
RECURSIVE SortedSeq(_)
SortedSeq(S) ==
    IF S = {} THEN <<>>
    ELSE LET m == CHOOSE x \in S : \A y \in S : x <= y
         IN  <<m>> \o SortedSeq(S \ {m})

Range(s) == {s[i] : i \in 1..Len(s)}

\* every enumeration order of a set: what list(a_set) may return
Perms(S) == {s \in [1..Cardinality(S) -> S] : Range(s) = S}

\* --------------------------------------------------------------- data model
\* top-level regular files of an export tree other than manifest.json
AuxNames == {"image_r1.tar", "index.json", "oci-layout", "repositories"}
\* the content of an auxiliary file is named by the version it belongs to:
\* "old", "new", or "absent" when the file is not there
NoAux == [n \in AuxNames |-> "absent"]

\* diff_<tag2>.json
NoDiff == [present |-> FALSE, added |-> <<>>, removed |-> <<>>]

\* a directory tree: an extracted export, a scratch directory or the members
\* of a tar archive
EmptyDir ==
    [blobsDir |-> FALSE, blobs |-> {}, hasManifest |-> FALSE, manifest |-> <<>>,
     aux |-> NoAux, diff |-> NoDiff]

\* a manifest entry lists its layers in order
EntryOf(S) == [Layers |-> [i \in 1..Cardinality(S) |-> BlobPath(SortedSeq(S)[i])]]

\* docker save image:tag -> tar -> extractall: an OCI-layout tree with one
\* manifest entry whose layers are all stored under blobs/sha256
ExportTree(blobs, layers, label) ==
    [blobsDir |-> TRUE, blobs |-> blobs, hasManifest |-> TRUE,
     manifest |-> <<EntryOf(layers)>>,
     aux |-> [n \in AuxNames |-> IF n = "image_r1.tar" THEN "absent" ELSE label],
     diff |-> NoDiff]

ExportTrees(label) ==
    UNION {{ExportTree(b, l, label) : l \in SUBSET b} : b \in SUBSET Hashes}

\* a file in the diff output or release directory
NoFile == [exists |-> FALSE, complete |-> FALSE, by |-> "nobody", dir |-> EmptyDir]
TarFile(by, dir) == [exists |-> TRUE, complete |-> TRUE, by |-> by, dir |-> dir]

\* ------------------------------------------------------------- tar archives
\* tarfile.add(dir, arcname="") adds the members recursively in sorted name
\* order: blobs/, blobs/sha256/<hash>..., diff_<tag2>.json, image_r1.tar,
\* index.json, manifest.json, oci-layout, repositories
AuxMember(dir, n) == IF dir.aux[n] # "absent" THEN <<[kind |-> n, h |-> 0]>> ELSE <<>>

MemberSeq(dir) ==
    (IF dir.blobsDir THEN <<[kind |-> "blobs", h |-> 0]>> ELSE <<>>)
    \o [i \in 1..Cardinality(dir.blobs) |-> [kind |-> "blob", h |-> SortedSeq(dir.blobs)[i]]]
    \o (IF dir.diff.present THEN <<[kind |-> "diff.json", h |-> 0]>> ELSE <<>>)
    \o AuxMember(dir, "image_r1.tar")
    \o AuxMember(dir, "index.json")
    \o (IF dir.hasManifest THEN <<[kind |-> "manifest.json", h |-> 0]>> ELSE <<>>)
    \o AuxMember(dir, "oci-layout")
    \o AuxMember(dir, "repositories")

\* the members of dir that a write reached before it stopped after k members
TarPrefix(dir, k) ==
    LET done  == Range(SubSeq(MemberSeq(dir), 1, k))
        kinds == {m.kind : m \in done}
    IN  [blobsDir    |-> "blobs" \in kinds,
         blobs       |-> {m.h : m \in {x \in done : x.kind = "blob"}},
         hasManifest |-> "manifest.json" \in kinds,
         manifest    |-> IF "manifest.json" \in kinds THEN dir.manifest ELSE <<>>,
         aux         |-> [n \in AuxNames |-> IF n \in kinds THEN dir.aux[n] ELSE "absent"],
         diff        |-> IF "diff.json" \in kinds THEN dir.diff ELSE NoDiff]

\* with tarfile.open(path, "w") as tar: tar.add(dir, arcname=""), where the
\* write may fail: at open (nothing is touched) or after k members (the file
\* holds what was written so far)
WriteTar(prev, by, dir, fault, k) ==
    IF fault = "taropen" THEN prev
    ELSE IF fault = "taradd"
         THEN [exists |-> TRUE, complete |-> FALSE, by |-> by,
               dir |-> TarPrefix(dir, IF k < Len(MemberSeq(dir)) THEN k ELSE Len(MemberSeq(dir)) - 1)]
         ELSE TarFile(by, dir)

\* -------------------------------------------------------------------- state
VARIABLES
    entry,      \* the work-list entry: image name, old tag, new tag, diff dir
    engine,     \* the export trees the engine serves for image:tag1, image:tag2
    outDir,     \* archive path -> file, in the diff output directory
    relDir,     \* archive path -> file, in the release directory
    scratch,    \* scratch directories of the last invocation that still exist
    last,       \* what the last invocation was and how it ended
    env,        \* "faulty": calls into the file system and the engine may raise
    run,        \* the run of the main loop over the work list
    ret         \* the directory a LayerSet reader is given and what it returned

vars == <<entry, engine, outDir, relDir, scratch, last, env, run, ret>>

utils_diff_tar(e) == DiffTarPath(e.diff_output_dir, utils_sanitize(e.image), e.tag2)
main_diff_tar(e) == DiffTarPath(DIFF_OUTPUT_DIR, main_sanitize(e.image), e.tag2)
utils_updated_diff_tar(e) == DiffTarPath(NEW_RELEASES_DIR, utils_sanitize(e.image), e.tag2)
\* a release path that lies in the diff output directory
main_updated_diff_tar_in_output_dir(e) == DiffTarPath(DIFF_OUTPUT_DIR, main_sanitize(e.image), e.tag2)
main_updated_diff_tar(e) == DiffTarPath(NEW_RELEASES_DIR, main_sanitize(e.image), e.tag2)

OutPaths(e) == {utils_diff_tar(e), main_diff_tar(e)}
RelPaths(e) == {utils_updated_diff_tar(e), main_updated_diff_tar(e)}

\* --------------------------------------------------------- LayerSet readers
\* a reader that takes a missing directory for an empty one
read_from_blobs_never_fails(tree) == FALSE

\* read_from_blobs: the listing of blobs/sha256 as layer paths; FileNotFoundError
\* when the directory is absent
read_from_blobs_fails(tree) == ~tree.blobsDir
read_from_blobs(tree) == {BlobPath(f) : f \in tree.blobs}

\* read_layers_from_manifest (utils.py, main.py): open() raises when there is
\* no manifest.json; otherwise the layers of item.get("Layers", []) of every
\* entry, as a set
read_layers_from_manifest_fails(tree) == ~tree.hasManifest
read_layers_from_manifest(manifest) ==
    UNION {IF "Layers" \in DOMAIN manifest[i] THEN Range(manifest[i].Layers) ELSE {} :
             i \in 1..Len(manifest)}

\* ---------------------------------------------------------- Diff Computer
\* list(a_set): the elements in the iteration order of the set, which the
\* string hash seed of the run decides; order is that order over all paths
AllPaths == {BlobPath(f) : f \in Hashes}
Orders == Perms(AllPaths)
ListOf(S, order) == SelectSeq(order, LAMBDA x : x \in S)

\* a DiffRecord whose added list is all of new
save_differences_no_subtraction(old_files, new_files, order) ==
    [present |-> TRUE,
     added   |-> ListOf(new_files, order),
     removed |-> ListOf(old_files \ new_files, order)]

\* save_differences: the DiffRecord written to diff_<tag2>.json
save_differences(old_files, new_files, order) ==
    [present |-> TRUE,
     added   |-> ListOf(new_files \ old_files, order),
     removed |-> ListOf(old_files \ new_files, order)]

\* ------------------------------------------------------------------ faults
\* the step of an invocation at which the environment makes a call raise
\* (I/O error, engine error); "none" when every call succeeds
GenFaults ==
    {"none", "mkdtemp1", "mkdtemp2", "mkdtemp3", "makedirs", "extract", "copy",
     "dump", "taropen", "taradd", "rmtree1", "rmtree2", "rmtree3"}

\* scratch directories left behind: those created before a failing mkdtemp or
\* makedirs (outside the try), those not removed once an rmtree of the
\* finally block raises
Leaked(fault, d1, d2, d3) ==
    CASE fault = "mkdtemp2" -> {d1}
      [] fault = "mkdtemp3" -> {d1, d2}
      [] fault = "makedirs" -> {d1, d2, d3}
      [] fault = "rmtree1"  -> {d1, d2, d3}
      [] fault = "rmtree2"  -> {d2, d3}
      [] fault = "rmtree3"  -> {d3}
      [] OTHER              -> {}

BeforeTry == {"mkdtemp1", "mkdtemp2", "mkdtemp3", "makedirs"}

\* ------------------------------------------------- Diff Archive Builder
\* a builder whose membership test is inverted: it copies the blobs of the
\* layers the old version has too
utils_temp_dir_diff_inverted(old, new, order) ==
    LET old_version_layers == read_from_blobs(old)
        new_version_layers == read_from_blobs(new)
    IN  [blobsDir    |-> TRUE,
         blobs       |-> {BaseName(curr_layer) :
                            curr_layer \in {l \in new_version_layers : l \in old_version_layers}},
         hasManifest |-> TRUE,
         manifest    |-> new.manifest,
         aux         |-> [n \in AuxNames |-> IF n = "repositories" THEN new.aux[n] ELSE "absent"],
         diff        |-> save_differences(old_version_layers, new_version_layers, order)]

\* the scratch diff directory of utils.generate_diff before it is archived
utils_temp_dir_diff(old, new, order) ==
    LET old_version_layers == read_from_blobs(old)
        new_version_layers == read_from_blobs(new)
    IN  [blobsDir    |-> TRUE,
         blobs       |-> {BaseName(curr_layer) :
                            curr_layer \in {l \in new_version_layers : l \notin old_version_layers}},
         hasManifest |-> TRUE,
         manifest    |-> new.manifest,
         aux         |-> [n \in AuxNames |-> IF n = "repositories" THEN new.aux[n] ELSE "absent"],
         diff        |-> save_differences(old_version_layers, new_version_layers, order)]

\* utils.generate_diff: the outcome, the file at diff_tar afterwards and the
\* scratch directories left
utils_generate_diff(old, new, prev, order, fault, k) ==
    LET raises  == \/ fault \in BeforeTry \cup {"extract", "copy", "dump"}
                   \/ read_from_blobs_fails(old) \/ read_from_blobs_fails(new)
                   \/ ~new.hasManifest \/ new.aux["repositories"] = "absent"
        written == WriteTar(prev, "utils.generate_diff", utils_temp_dir_diff(old, new, order), fault, k)
    IN  [outcome |-> IF raises \/ fault # "none" THEN "raised" ELSE "ok",
         tar     |-> IF raises THEN prev ELSE written,
         loaded  |-> FALSE,
         leaked  |-> Leaked(fault, "temp_dir_old_ver", "temp_dir_r2", "temp_dir_diff")]

\* a builder that copies the blob of every layer of the new manifest
main_temp_dir_diff_copy_all(old, new) ==
    [blobsDir    |-> TRUE,
     blobs       |-> HashesOf(read_layers_from_manifest(new.manifest)),
     hasManifest |-> TRUE,
     manifest    |-> new.manifest,
     aux         |-> [n \in AuxNames |-> IF n = "repositories" THEN new.aux[n] ELSE "absent"],
     diff        |-> NoDiff]

\* main.generate_diff: the layer sets come from the two manifests, the blobs
\* of the new layers are copied from the new export tree, no DiffRecord
main_temp_dir_diff(old, new) ==
    LET old_version_layers == read_layers_from_manifest(old.manifest)
        new_version_layers == read_layers_from_manifest(new.manifest)
    IN  [blobsDir    |-> TRUE,
         blobs       |-> {BaseName(curr_layer) :
                            curr_layer \in {l \in new_version_layers : l \notin old_version_layers}},
         hasManifest |-> TRUE,
         manifest    |-> new.manifest,
         aux         |-> [n \in AuxNames |-> IF n = "repositories" THEN new.aux[n] ELSE "absent"],
         diff        |-> NoDiff]

main_generate_diff(old, new, prev, fault, k) ==
    LET raises  == \/ fault \in BeforeTry \cup {"extract", "copy", "dump"}
                   \/ ~old.hasManifest \/ ~new.hasManifest
                   \/ main_temp_dir_diff(old, new).blobs \ new.blobs # {}
                   \/ new.aux["repositories"] = "absent"
        written == WriteTar(prev, "main.generate_diff", main_temp_dir_diff(old, new), fault, k)
    IN  [outcome |-> IF raises \/ fault # "none" THEN "raised" ELSE "ok",
         tar     |-> IF raises THEN prev ELSE written,
         loaded  |-> FALSE,
         leaked  |-> Leaked(fault, "temp_dir_r1", "temp_dir_r2", "temp_dir_diff")]

\* --------------------------------------------------- Reconstruction Engine
ProcFaults ==
    {"none", "mkdtemp1", "mkdtemp2", "mkdtemp3", "makedirs", "pull", "extract", "copy",
     "taropen", "taradd", "load", "rmtree1", "rmtree2", "rmtree3"}

\* the loop over the layers to reconcile, in list order: a layer that is not
\* among the archive's blobs is copied from the old tree when the old
\* manifest lists it (shutil.copy raises when the file is not there) and
\* ends the invocation otherwise
\* a reconciliation that copies nothing from the old tree
Reconcile_no_copy(layers, extracted_dirs, old, copied) == [status |-> "ok", copied |-> copied]

RECURSIVE Reconcile(_, _, _, _)
Reconcile(layers, extracted_dirs, old, copied) ==
    IF layers = <<>> THEN [status |-> "ok", copied |-> copied]
    ELSE LET layer == Head(layers)
         IN  IF layer \in Range(extracted_dirs)
             THEN Reconcile(Tail(layers), extracted_dirs, old, copied)
             ELSE IF layer \in read_layers_from_manifest(old.manifest)
                  THEN IF BaseName(layer) \in old.blobs
                       THEN Reconcile(Tail(layers), extracted_dirs, old, copied \cup {BaseName(layer)})
                       ELSE [status |-> "raised", copied |-> copied]
                  ELSE [status |-> "error", copied |-> copied]

\* sorted([os.path.join("blobs", "sha256", f) for f in os.listdir(...)])
ExtractedDirs(dir) ==
    [i \in 1..Cardinality(dir.blobs) |-> BlobPath(SortedSeq(dir.blobs)[i])]

\* a reconstruction that keeps the manifest.json copied from the old tree
NewVerTree_old_manifest(old_dir, diff_dir, copied) ==
    [blobsDir    |-> TRUE,
     blobs       |-> diff_dir.blobs \cup copied,
     hasManifest |-> TRUE,
     manifest    |-> old_dir.manifest,
     aux         |-> old_dir.aux,
     diff        |-> NoDiff]

\* the reconstructed tree: every blob of the archive, the blobs copied from
\* the old tree, every top-level regular file of the old tree, and the
\* manifest of the archive over the old one
NewVerTree(old_dir, diff_dir, copied) ==
    [blobsDir    |-> TRUE,
     blobs       |-> diff_dir.blobs \cup copied,
     hasManifest |-> TRUE,
     manifest    |-> diff_dir.manifest,
     aux         |-> old_dir.aux,
     diff        |-> NoDiff]

\* the part of process_image after the layers to reconcile are known, shared
\* by both variants: copy, reconcile, seal, load
SealedTree(layers, old_dir, diff_dir) ==
    NewVerTree(old_dir, diff_dir, Reconcile(layers, ExtractedDirs(diff_dir), old_dir, {}).copied)

\* a reconstruction that hands the release archive to the engine although
\* writing it failed
Reconstruct_load_unsealed(by, layers, old_dir, diff_dir, prev, fault, k, loads) ==
    LET rec    == Reconcile(layers, ExtractedDirs(diff_dir), old_dir, {})
        sealed == WriteTar(prev, by, SealedTree(layers, old_dir, diff_dir), fault, k)
    IN  IF ~diff_dir.blobsDir \/ fault = "copy" \/ ~old_dir.hasManifest
        THEN [outcome |-> "raised", tar |-> prev, loaded |-> FALSE]
        ELSE IF rec.status # "ok"
        THEN [outcome |-> rec.status, tar |-> prev, loaded |-> FALSE]
        ELSE [outcome |-> IF fault = "none" THEN "ok" ELSE "raised",
              tar     |-> sealed,
              loaded  |-> loads /\ fault # "load"]

Reconstruct(by, layers, old_dir, diff_dir, prev, fault, k, loads) ==
    LET rec    == Reconcile(layers, ExtractedDirs(diff_dir), old_dir, {})
        sealed == WriteTar(prev, by, SealedTree(layers, old_dir, diff_dir), fault, k)
    IN  IF ~diff_dir.blobsDir \/ fault = "copy" \/ ~old_dir.hasManifest
        THEN [outcome |-> "raised", tar |-> prev, loaded |-> FALSE]
        ELSE IF rec.status # "ok"
        THEN [outcome |-> rec.status, tar |-> prev, loaded |-> FALSE]
        ELSE IF fault \in {"taropen", "taradd"}
        THEN [outcome |-> "raised", tar |-> sealed, loaded |-> FALSE]
        ELSE [outcome |-> IF fault = "none" THEN "ok" ELSE "raised",
              tar     |-> sealed,
              loaded  |-> loads /\ fault # "load"]

NothingDone(outcome, prev) ==
    [outcome |-> outcome, tar |-> prev, loaded |-> FALSE, leaked |-> {}]

\* the finally block: an rmtree that raises replaces the outcome of the body
RmFaults == {"rmtree1", "rmtree2", "rmtree3"}
Finally(r, fault, leaked) ==
    [outcome |-> IF fault \in RmFaults THEN "raised" ELSE r.outcome,
     tar |-> r.tar, loaded |-> r.loaded, leaked |-> leaked]

\* the old export as each variant holds it while reconstructing, and the
\* layers each variant reconciles
utils_old_dir(old) == [old EXCEPT !.aux["image_r1.tar"] = "absent"]
main_old_dir(old) == [old EXCEPT !.aux["image_r1.tar"] = "old"]
\* a variant that reconciles the removed layers as well
utils_layers_and_removed(diff_dir) == diff_dir.diff.added \o diff_dir.diff.removed
utils_layers(diff_dir) == diff_dir.diff.added
main_layers(diff_dir) == IF diff_dir.manifest = <<>> THEN <<>> ELSE diff_dir.manifest[1].Layers

\* utils.process_image: the layers to reconcile are the added list of the
\* DiffRecord; image_r1.tar is removed from the old tree after extraction
utils_process_image(old, diff_tar, prev, fault, k) ==
    LET temp_dir_old_ver == utils_old_dir(old)
        temp_dir_diff    == diff_tar.dir
        leaked           == Leaked(fault, "temp_dir_old_ver", "temp_dir_diff", "temp_dir_new_ver")
    IN  IF ~diff_tar.exists THEN NothingDone("error", prev)
        ELSE IF fault \in BeforeTry \cup {"pull", "extract"}
        THEN Finally(NothingDone("raised", prev), fault, leaked)
        ELSE IF ~temp_dir_diff.diff.present
        THEN Finally(NothingDone("error", prev), fault, leaked)
        ELSE IF ~temp_dir_diff.hasManifest
        THEN Finally(NothingDone("raised", prev), fault, leaked)
        ELSE Finally(Reconstruct("utils.process_image", utils_layers(temp_dir_diff),
                                  temp_dir_old_ver, temp_dir_diff, prev, fault, k, TRUE),
                     fault, leaked)

\* main_old.process_image: as utils.process_image, with the directories fixed;
\* it reads the removed list of the DiffRecord too, into a name it never
\* uses, and does not ask the engine to load the result
main_old_diff_tar(e) == DiffTarPath(DIFF_OUTPUT_DIR, utils_sanitize(e.image), e.tag2)
main_old_updated_diff_tar(e) == DiffTarPath(NEW_RELEASES_DIR, utils_sanitize(e.image), e.tag2)

main_old_process_image(old, diff_tar, prev, fault, k) ==
    LET temp_dir_r1   == utils_old_dir(old)
        temp_dir_diff == diff_tar.dir
        layers_add    == temp_dir_diff.diff.added
        layers_rm     == temp_dir_diff.diff.removed
        leaked        == Leaked(fault, "temp_dir_r1", "temp_dir_diff", "temp_dir_updated_diff")
    IN  IF ~diff_tar.exists THEN NothingDone("error", prev)
        ELSE IF fault \in BeforeTry \cup {"pull", "extract"}
        THEN Finally(NothingDone("raised", prev), fault, leaked)
        ELSE IF ~temp_dir_diff.diff.present
        THEN Finally(NothingDone("error", prev), fault, leaked)
        ELSE IF ~temp_dir_diff.hasManifest
        THEN Finally(NothingDone("raised", prev), fault, leaked)
        ELSE Finally(Reconstruct("main_old.process_image", layers_add,
                                  temp_dir_r1, temp_dir_diff, prev, fault, k, FALSE),
                     fault, leaked)

\* main.process_image: the layers to reconcile are the Layers of the first
\* manifest entry; image_r1.tar stays in the old tree; the engine is not
\* asked to load the result
main_process_image(old, diff_tar, prev, fault, k) ==
    LET temp_dir_r1   == main_old_dir(old)
        temp_dir_diff == diff_tar.dir
        leaked        == Leaked(fault, "temp_dir_r1", "temp_dir_diff", "temp_dir_updated_diff")
    IN  IF ~diff_tar.exists THEN NothingDone("error", prev)
        ELSE IF fault \in BeforeTry \cup {"pull", "extract"}
        THEN Finally(NothingDone("raised", prev), fault, leaked)
        ELSE IF ~temp_dir_diff.hasManifest
        THEN Finally(NothingDone("error", prev), fault, leaked)
        ELSE IF temp_dir_diff.manifest = <<>>
        THEN Finally(NothingDone("raised", prev), fault, leaked)
        ELSE Finally(Reconstruct("main.process_image", main_layers(temp_dir_diff),
                                  temp_dir_r1, temp_dir_diff, prev, fault, k, FALSE),
                     fault, leaked)

\* ------------------------------------------------------------------ actions
Images == {<<"a", "/", "b">>}
Tag1 == <<"r1">>
Tag2 == <<"r2">>

Entry(image, tag1, tag2, dir) ==
    [image |-> image, tag1 |-> tag1, tag2 |-> tag2, diff_output_dir |-> dir]

NoCall == [op |-> "none", outcome |-> "none", loaded |-> FALSE, diff_tar |-> <<>>]
Call(op, r, diff_tar) ==
    [op |-> op, outcome |-> r.outcome, loaded |-> r.loaded, diff_tar |-> diff_tar]

\* the two directories are one file system: a path names a file of the
\* directory it lies in, wherever the caller meant to write
FileAt(p) ==
    IF p \in DOMAIN outDir THEN outDir[p]
    ELSE IF p \in DOMAIN relDir THEN relDir[p] ELSE NoFile
Put(files, p, f) == IF p \in DOMAIN files THEN [files EXCEPT ![p] = f] ELSE files

\* no main loop is running; no reader was called
NoRun ==
    [option |-> "none", list |-> <<>>, pos |-> 1, status |-> "idle", exit |-> -1,
     called |-> {}, failed |-> {}]
NoRet == [op |-> "none", tree |-> EmptyDir, raised |-> FALSE, value |-> {}]

InitFiles ==
    /\ outDir = [p \in OutPaths(entry) |-> NoFile]
    /\ relDir = [p \in RelPaths(entry) |-> NoFile]
    /\ scratch = {}
    /\ last = NoCall
    /\ run = NoRun
    /\ ret = NoRet

Init ==
    /\ entry \in {Entry(i, Tag1, Tag2, DIFF_OUTPUT_DIR) : i \in Images}
    /\ engine \in {[old |-> o, new |-> n] : o \in ExportTrees("old"), n \in ExportTrees("new")}
    /\ env = "faulty"
    /\ InitFiles

\* the faults the environment may inject
Faults(all) == IF env = "faulty" THEN all ELSE {"none"}

\* a failing tar.add stops after any number of members short of all; Kset is
\* the choice of that number
Kset(fault, dir) == IF fault = "taradd" THEN 0..(Len(MemberSeq(dir)) - 1) ELSE {0}

\* one iteration order for each DiffRecord that the orders can produce
OrderAt(old, new, order) ==
    LET a == read_from_blobs(new) \ read_from_blobs(old)
        r == read_from_blobs(old) \ read_from_blobs(new)
    IN  order = ListOf(a, order) \o ListOf(r, order)
                    \o ListOf(AllPaths \ (a \cup r), ExtractedDirs([blobs |-> Hashes]))

\* every way a call can end: one result for each order, each fault and each
\* number of members a failing tar.add got through
UtilsGenerateDiffResults(old, new, prev) ==
    UNION {UNION {{utils_generate_diff(old, new, prev, order, fault, k) :
                     k \in Kset(fault, utils_temp_dir_diff(old, new, order))} :
                   fault \in Faults(GenFaults)} :
            order \in {o \in Orders : OrderAt(old, new, o)}}

MainGenerateDiffResults(old, new, prev) ==
    UNION {{main_generate_diff(old, new, prev, fault, k) :
              k \in Kset(fault, main_temp_dir_diff(old, new))} :
            fault \in Faults(GenFaults \ {"dump"})}

UtilsProcessImageResults(old, d, prev) ==
    UNION {{utils_process_image(old, d, prev, fault, k) :
              k \in Kset(fault, SealedTree(utils_layers(d.dir), utils_old_dir(old), d.dir))} :
            fault \in Faults(ProcFaults)}

MainProcessImageResults(old, d, prev) ==
    UNION {{main_process_image(old, d, prev, fault, k) :
              k \in Kset(fault, SealedTree(main_layers(d.dir), main_old_dir(old), d.dir))} :
            fault \in Faults(ProcFaults \ {"load"})}

GenerateDiffUtils ==
    LET p == utils_diff_tar(entry)
    IN  \E r \in UtilsGenerateDiffResults(engine.old, engine.new, outDir[p]) :
          /\ outDir' = [outDir EXCEPT ![p] = r.tar]
          /\ scratch' = r.leaked
          /\ last' = Call("utils.generate_diff", r, p)
          /\ UNCHANGED <<entry, engine, relDir, env, run, ret>>

GenerateDiffMain ==
    LET p == main_diff_tar(entry)
    IN  \E r \in MainGenerateDiffResults(engine.old, engine.new, outDir[p]) :
          /\ outDir' = [outDir EXCEPT ![p] = r.tar]
          /\ scratch' = r.leaked
          /\ last' = Call("main.generate_diff", r, p)
          /\ UNCHANGED <<entry, engine, relDir, env, run, ret>>

ProcessImageUtils ==
    LET p == utils_updated_diff_tar(entry)
        d == outDir[utils_diff_tar(entry)]
    IN  \E r \in UtilsProcessImageResults(engine.old, d, FileAt(p)) :
          /\ relDir' = Put(relDir, p, r.tar)
          /\ outDir' = Put(outDir, p, r.tar)
          /\ scratch' = r.leaked
          /\ last' = Call("utils.process_image", r, utils_diff_tar(entry))
          /\ UNCHANGED <<entry, engine, env, run, ret>>

ProcessImageMain ==
    LET p == main_updated_diff_tar(entry)
        d == outDir[main_diff_tar(entry)]
    IN  \E r \in MainProcessImageResults(engine.old, d, FileAt(p)) :
          /\ relDir' = Put(relDir, p, r.tar)
          /\ outDir' = Put(outDir, p, r.tar)
          /\ scratch' = r.leaked
          /\ last' = Call("main.process_image", r, main_diff_tar(entry))
          /\ UNCHANGED <<entry, engine, env, run, ret>>

Next ==
    \/ GenerateDiffUtils
    \/ ProcessImageUtils
    \/ GenerateDiffMain
    \/ ProcessImageMain

Spec == Init /\ [][Next]_vars

\* the utils.py variant alone, and the main.py variant alone
NextUtils == GenerateDiffUtils \/ ProcessImageUtils
SpecUtils == Init /\ [][NextUtils]_vars

NextMain == GenerateDiffMain \/ ProcessImageMain
SpecMain == Init /\ [][NextMain]_vars

\* the development side alone: archives are only built
NextDev == GenerateDiffUtils \/ GenerateDiffMain
SpecDev == Init /\ [][NextDev]_vars

\* the target side: an archive was delivered into the diff output directory
\* from elsewhere, with any blobs and any manifest of up to MaxEntries
\* entries, and main.process_image reconstructs against the local old version
Manifests == SeqsUpTo({EntryOf(S) : S \in SUBSET Hashes}, MaxEntries)

DeliveredDirs ==
    {[blobsDir |-> TRUE, blobs |-> b, hasManifest |-> TRUE, manifest |-> m,
      aux |-> [n \in AuxNames |-> IF n = "repositories" THEN "new" ELSE "absent"],
      diff |-> NoDiff] : b \in SUBSET Hashes, m \in Manifests}
    \cup
    {[blobsDir |-> TRUE, blobs |-> b, hasManifest |-> FALSE, manifest |-> <<>>,
      aux |-> [n \in AuxNames |-> IF n = "repositories" THEN "new" ELSE "absent"],
      diff |-> NoDiff] : b \in SUBSET Hashes}

Delivered == {NoFile} \cup {TarFile("delivered", d) : d \in DeliveredDirs}

InitTarget ==
    /\ entry \in {Entry(i, Tag1, Tag2, DIFF_OUTPUT_DIR) : i \in Images}
    /\ engine \in {[old |-> o, new |-> ExportTree(Hashes, Hashes, "new")] : o \in ExportTrees("old")}
    /\ env = "faulty"
    /\ outDir \in {[p \in OutPaths(entry) |-> f] : f \in Delivered}
    /\ relDir = [p \in RelPaths(entry) |-> NoFile]
    /\ scratch = {}
    /\ last = NoCall
    /\ run = NoRun
    /\ ret = NoRet

NextTarget == ProcessImageMain
SpecTarget == InitTarget /\ [][NextTarget]_vars

\* naming: any image name, tags and diff directory, a reliable environment
Names == SeqsUpTo(Chars, MaxNameLen) \ {<<>>}
Tags == {Tag1, Tag2}
Dirs == {DIFF_OUTPUT_DIR, <<"out">>}
TagTree(tag, label) ==
    IF tag = Tag1 THEN ExportTree({1}, {1}, label) ELSE ExportTree({1, 2}, {1, 2}, label)

InitNaming ==
    /\ entry \in {Entry(i, t1, t2, d) : i \in Names, t1 \in Tags, t2 \in Tags, d \in Dirs}
    /\ engine = [old |-> TagTree(entry.tag1, "old"), new |-> TagTree(entry.tag2, "new")]
    /\ env = "reliable"
    /\ InitFiles

NextNaming == GenerateDiffUtils \/ ProcessImageUtils
SpecNaming == InitNaming /\ [][NextNaming]_vars

\* applying a DiffRecord archive: an archive with any blobs and any added and
\* removed lists lies in the diff output directory, and utils.process_image
\* or main_old.process_image reconstructs against the local old version, in
\* an environment where no call raises
MainOldProcessImageResults(old, d, prev) ==
    UNION {{main_old_process_image(old, d, prev, fault, k) :
              k \in Kset(fault, SealedTree(d.dir.diff.added, utils_old_dir(old), d.dir))} :
            fault \in Faults(ProcFaults \ {"load"})}

ProcessImageMainOld ==
    LET p == main_old_updated_diff_tar(entry)
        d == FileAt(main_old_diff_tar(entry))
    IN  \E r \in MainOldProcessImageResults(engine.old, d, FileAt(p)) :
          /\ relDir' = Put(relDir, p, r.tar)
          /\ outDir' = Put(outDir, p, r.tar)
          /\ scratch' = r.leaked
          /\ last' = Call("main_old.process_image", r, main_old_diff_tar(entry))
          /\ UNCHANGED <<entry, engine, env, run, ret>>

SortedPaths(S) == ExtractedDirs([blobs |-> S])

RecordDirs ==
    {[blobsDir |-> TRUE, blobs |-> b, hasManifest |-> TRUE, manifest |-> <<EntryOf(Hashes)>>,
      aux |-> [NoAux EXCEPT !["repositories"] = "new"],
      diff |-> [present |-> TRUE, added |-> SortedPaths(a), removed |-> SortedPaths(r)]] :
        b \in SUBSET Hashes, a \in SUBSET Hashes, r \in SUBSET Hashes}

InitApply ==
    /\ entry \in {Entry(i, Tag1, Tag2, DIFF_OUTPUT_DIR) : i \in Images}
    /\ engine \in {[old |-> ExportTree(S, S, "old"), new |-> ExportTree(Hashes, Hashes, "new")] :
                     S \in SUBSET Hashes}
    /\ env = "reliable"
    /\ outDir \in {[p \in OutPaths(entry) |-> TarFile("delivered", d)] : d \in RecordDirs}
    /\ relDir = [p \in RelPaths(entry) |-> NoFile]
    /\ scratch = {}
    /\ last = NoCall
    /\ run = NoRun
    /\ ret = NoRet

NextApply == ProcessImageUtils \/ ProcessImageMainOld
SpecApply == InitApply /\ [][NextApply]_vars

\* the LayerSet readers applied to a directory: an export tree with or
\* without blobs/sha256, with or without manifest.json, whose manifest is a
\* list of up to MaxEntries entries, each with a Layers field or without
ReadFromBlobs ==
    /\ ret' = [op     |-> "read_from_blobs",
               tree   |-> ret.tree,
               raised |-> read_from_blobs_fails(ret.tree),
               value  |-> IF read_from_blobs_fails(ret.tree) THEN {}
                          ELSE read_from_blobs(ret.tree)]
    /\ UNCHANGED <<entry, engine, outDir, relDir, scratch, last, env, run>>

ReadLayersFromManifest ==
    /\ ret' = [op     |-> "read_layers_from_manifest",
               tree   |-> ret.tree,
               raised |-> read_layers_from_manifest_fails(ret.tree),
               value  |-> IF read_layers_from_manifest_fails(ret.tree) THEN {}
                          ELSE read_layers_from_manifest(ret.tree.manifest)]
    /\ UNCHANGED <<entry, engine, outDir, relDir, scratch, last, env, run>>

ManifestEntries == {[Config |-> "config"]} \cup {EntryOf(S) : S \in SUBSET Hashes}
ReaderTrees ==
    {[blobsDir |-> bd, blobs |-> IF bd THEN b ELSE {},
      hasManifest |-> hm, manifest |-> IF hm THEN m ELSE <<>>,
      aux |-> NoAux, diff |-> NoDiff] :
        bd \in BOOLEAN, b \in SUBSET Hashes, hm \in BOOLEAN,
        m \in SeqsUpTo(ManifestEntries, MaxEntries)}

InitReaders ==
    /\ entry \in {Entry(i, Tag1, Tag2, DIFF_OUTPUT_DIR) : i \in Images}
    /\ engine = [old |-> TagTree(Tag1, "old"), new |-> TagTree(Tag2, "new")]
    /\ env = "reliable"
    /\ outDir = [p \in OutPaths(entry) |-> NoFile]
    /\ relDir = [p \in RelPaths(entry) |-> NoFile]
    /\ scratch = {}
    /\ last = NoCall
    /\ run = NoRun
    /\ ret \in {[NoRet EXCEPT !.tree = t] : t \in ReaderTrees}

NextReaders == ReadFromBlobs \/ ReadLayersFromManifest
SpecReaders == InitReaders /\ [][NextReaders]_vars

\* the no-change scenario: the engine serves the same layer set under both
\* tags; the archive is built and applied by src/main.py
InitSame ==
    /\ entry \in {Entry(i, Tag1, Tag2, DIFF_OUTPUT_DIR) : i \in Images}
    /\ engine \in {[old |-> ExportTree(S, S, "old"), new |-> ExportTree(S, S, "new")] :
                     S \in SUBSET Hashes}
    /\ env = "faulty"
    /\ InitFiles

SpecSame == InitSame /\ [][NextMain]_vars

\* ------------------------------------------------- main loop (src/main.py)
\* most entries of the image list
MaxList == 2

\* entry.get(key) of a key the entry does not have
None == <<"None">>
Keys == {"Image", "Old Version", "New Version"}

\* an entry of the image list: a JSON object that has the keys whose value
\* is given
JsonEntry(image, tag1, tag2) ==
    LET all == [k \in Keys |-> CASE k = "Image"       -> image
                                 [] k = "Old Version" -> tag1
                                 [] OTHER             -> tag2]
    IN  [k \in {x \in Keys : all[x] # None} |-> all[k]]

Get(e, key) == IF key \in DOMAIN e THEN e[key] ELSE None

\* not v, for v a string or None
Falsy(v) == v = None \/ v = <<>>

\* a validation that looks at the image name only
Malformed_image_only(e) == Falsy(Get(e, "Image"))

\* if not image or not tag1 or not tag2
Malformed(e) ==
    Falsy(Get(e, "Image")) \/ Falsy(Get(e, "Old Version")) \/ Falsy(Get(e, "New Version"))

\* image, tag1, tag2 as the loop passes them on; main.py has no directory
\* argument, its directories are fixed
MainEntry(e) ==
    Entry(Get(e, "Image"), Get(e, "Old Version"), Get(e, "New Version"), DIFF_OUTPUT_DIR)

Running == run.status = "running" /\ run.pos <= Len(run.list)
Current == run.list[run.pos]

\* the loop after a call returned or raised: an exception is caught nowhere,
\* so it ends the process with status 1; a return, with or without an error
\* logged, goes on to the next entry
Advance(r) ==
    IF r.outcome = "raised"
    THEN [run EXCEPT !.status = "aborted", !.exit = 1,
                     !.called = @ \cup {run.pos}, !.failed = @ \cup {run.pos}]
    ELSE [run EXCEPT !.pos = @ + 1,
                     !.called = @ \cup {run.pos},
                     !.failed = IF r.outcome = "ok" THEN @ ELSE @ \cup {run.pos}]

MainLoopSkip ==
    /\ Running
    /\ Malformed(Current)
    /\ run' = [run EXCEPT !.pos = @ + 1]
    /\ UNCHANGED <<entry, engine, outDir, relDir, scratch, last, env, ret>>

MainLoopDev ==
    /\ Running
    /\ ~Malformed(Current)
    /\ run.option = "--dev"
    /\ LET e == MainEntry(Current)
           p == main_diff_tar(e)
       IN  \E r \in MainGenerateDiffResults(engine.old, engine.new, FileAt(p)) :
             /\ entry' = e
             /\ outDir' = Put(outDir, p, r.tar)
             /\ relDir' = Put(relDir, p, r.tar)
             /\ scratch' = r.leaked
             /\ last' = Call("main.generate_diff", r, p)
             /\ run' = Advance(r)
             /\ UNCHANGED <<engine, env, ret>>

MainLoopTarget ==
    /\ Running
    /\ ~Malformed(Current)
    /\ run.option = "--target"
    /\ LET e == MainEntry(Current)
           p == main_updated_diff_tar(e)
           d == FileAt(main_diff_tar(e))
       IN  \E r \in MainProcessImageResults(engine.old, d, FileAt(p)) :
             /\ entry' = e
             /\ outDir' = Put(outDir, p, r.tar)
             /\ relDir' = Put(relDir, p, r.tar)
             /\ scratch' = r.leaked
             /\ last' = Call("main.process_image", r, main_diff_tar(e))
             /\ run' = Advance(r)
             /\ UNCHANGED <<engine, env, ret>>

\* any other option: usage() prints the help text and exits with status 1
MainLoopUsage ==
    /\ Running
    /\ ~Malformed(Current)
    /\ run.option \notin {"--dev", "--target"}
    /\ run' = [run EXCEPT !.status = "usage", !.exit = 1]
    /\ UNCHANGED <<entry, engine, outDir, relDir, scratch, last, env, ret>>

\* the list is exhausted: the script falls off its end, status 0
MainLoopEnd ==
    /\ run.status = "running"
    /\ run.pos > Len(run.list)
    /\ run' = [run EXCEPT !.status = "finished", !.exit = 0]
    /\ UNCHANGED <<entry, engine, outDir, relDir, scratch, last, env, ret>>

\* the image lists: two images, and for each key an entry that lacks it and
\* one that has it empty
RunImages == {<<"a">>, <<"a", "/", "b">>}
WorkEntries ==
    {JsonEntry(i, Tag1, Tag2) : i \in RunImages}
    \cup {JsonEntry(v, Tag1, Tag2) : v \in {None, <<>>}}
    \cup {JsonEntry(<<"a">>, v, Tag2) : v \in {None, <<>>}}
    \cup {JsonEntry(<<"a">>, Tag1, v) : v \in {None, <<>>}}
WorkLists == SeqsUpTo(WorkEntries, MaxList)
Options == {"--dev", "--target", "--help"}

RunOutPaths == {main_diff_tar(Entry(i, Tag1, Tag2, DIFF_OUTPUT_DIR)) : i \in RunImages}
RunRelPaths == {main_updated_diff_tar(Entry(i, Tag1, Tag2, DIFF_OUTPUT_DIR)) : i \in RunImages}

\* the state when the loop starts: both directories exist; in target mode
\* the output directory holds, for any of the images, the archive that
\* main.generate_diff builds
InitRun ==
    /\ entry = Entry(<<>>, Tag1, Tag2, DIFF_OUTPUT_DIR)
    /\ engine = [old |-> TagTree(Tag1, "old"), new |-> TagTree(Tag2, "new")]
    /\ env = "faulty"
    /\ run \in {[NoRun EXCEPT !.option = o, !.list = l, !.status = "running"] :
                  o \in Options, l \in WorkLists}
    /\ outDir \in [RunOutPaths ->
                     IF run.option = "--target"
                     THEN {NoFile, TarFile("main.generate_diff",
                                           main_temp_dir_diff(engine.old, engine.new))}
                     ELSE {NoFile}]
    /\ relDir = [p \in RunRelPaths |-> NoFile]
    /\ scratch = {}
    /\ last = NoCall
    /\ ret = NoRet

NextRun == MainLoopSkip \/ MainLoopDev \/ MainLoopTarget \/ MainLoopUsage \/ MainLoopEnd
SpecRun == InitRun /\ [][NextRun]_vars

\* sealing: the engine serves two layer sets (export trees whose blobs are
\* the layers their manifests list), the new one with every layer, the old
\* one with any of them; the diff output directory holds what one
\* call of generate_diff, of either variant, left there (nothing, a truncated
\* archive or a complete one); both variants of process_image are applied,
\* in any order, and calls may raise
InitSeal ==
    /\ entry \in {Entry(i, Tag1, Tag2, DIFF_OUTPUT_DIR) : i \in Images}
    /\ engine \in {[old |-> ExportTree(S, S, "old"), new |-> ExportTree(Hashes, Hashes, "new")] :
                     S \in SUBSET Hashes}
    /\ env = "faulty"
    /\ outDir \in {[p \in OutPaths(entry) |-> r.tar] :
                     r \in UtilsGenerateDiffResults(engine.old, engine.new, NoFile)
                           \cup MainGenerateDiffResults(engine.old, engine.new, NoFile)}
    /\ relDir = [p \in RelPaths(entry) |-> NoFile]
    /\ scratch = {}
    /\ last = NoCall
    /\ run = NoRun
    /\ ret = NoRet

NextSeal == ProcessImageUtils \/ ProcessImageMain
SpecSeal == InitSeal /\ [][NextSeal]_vars

\* ------------------------------------- phases of utils.process_image
\* the phases one invocation goes through, in the order the code runs them:
\* Start (paths, the test that the archive exists, the scratch directories),
\* ExtractingBaseline (the old image is saved and extracted),
\* ExtractingArchive (the archive is extracted, the DiffRecord read, the new
\* tree filled), Reconciling (the loop over the layers), Sealing (the release
\* archive is written and handed to the engine), and how it ended: Done,
\* Returned (an error was logged and the function returned), Failed (the
\* loop found a layer the old version does not have) or Raised
PhasesOfBody(old, diff_tar, fault) ==
    LET temp_dir_old_ver == utils_old_dir(old)
        temp_dir_diff    == diff_tar.dir
        rec     == Reconcile(utils_layers(temp_dir_diff), ExtractedDirs(temp_dir_diff),
                             temp_dir_old_ver, {})
        filled  == <<"Start", "ExtractingBaseline", "ExtractingArchive">>
    IN  IF ~diff_tar.exists THEN <<"Start", "Returned">>
        ELSE IF fault \in BeforeTry THEN <<"Start", "Raised">>
        ELSE IF fault = "pull" THEN <<"Start", "ExtractingBaseline", "Raised">>
        ELSE IF fault = "extract" THEN filled \o <<"Raised">>
        ELSE IF ~temp_dir_diff.diff.present THEN filled \o <<"Returned">>
        ELSE IF \/ ~temp_dir_diff.hasManifest \/ ~temp_dir_diff.blobsDir
                \/ fault = "copy" \/ ~temp_dir_old_ver.hasManifest
        THEN filled \o <<"Raised">>
        ELSE IF rec.status = "error" THEN filled \o <<"Reconciling", "Failed">>
        ELSE IF rec.status = "raised" THEN filled \o <<"Reconciling", "Raised">>
        ELSE IF fault \in {"taropen", "taradd", "load"}
        THEN filled \o <<"Reconciling", "Sealing", "Raised">>
        ELSE filled \o <<"Reconciling", "Sealing", "Done">>

\* the finally block runs after the body, however it ended, unless the
\* function returned or raised before the try
utils_process_image_phases(old, diff_tar, fault) ==
    IF diff_tar.exists /\ fault \in RmFaults
    THEN Append(PhasesOfBody(old, diff_tar, fault), "Raised")
    ELSE PhasesOfBody(old, diff_tar, fault)

\* every way a call can end, with the phases it went through
UtilsProcessImageTraces(old, d, prev) ==
    UNION {{[r      |-> utils_process_image(old, d, prev, fault, k),
             phases |-> utils_process_image_phases(old, d, fault)] :
              k \in Kset(fault, SealedTree(utils_layers(d.dir), utils_old_dir(old), d.dir))} :
            fault \in Faults(ProcFaults)}

\* the call record with the phases of the invocation
Traced(call, phases) ==
    [op |-> call.op, outcome |-> call.outcome, loaded |-> call.loaded,
     diff_tar |-> call.diff_tar, phases |-> phases]

ProcessImageUtilsTraced ==
    LET p == utils_updated_diff_tar(entry)
        d == outDir[utils_diff_tar(entry)]
    IN  \E c \in UtilsProcessImageTraces(engine.old, d, FileAt(p)) :
          /\ relDir' = Put(relDir, p, c.r.tar)
          /\ outDir' = Put(outDir, p, c.r.tar)
          /\ scratch' = c.r.leaked
          /\ last' = Traced(Call("utils.process_image", c.r, utils_diff_tar(entry)), c.phases)
          /\ UNCHANGED <<entry, engine, env, run, ret>>

\* an archive was delivered into the diff output directory, with or without
\* a DiffRecord, or none was; calls may raise
InitPhases ==
    /\ entry \in {Entry(i, Tag1, Tag2, DIFF_OUTPUT_DIR) : i \in Images}
    /\ engine \in {[old |-> ExportTree(S, S, "old"), new |-> ExportTree(Hashes, Hashes, "new")] :
                     S \in SUBSET Hashes}
    /\ env = "faulty"
    /\ outDir \in {[p \in OutPaths(entry) |-> f] :
                     f \in Delivered \cup {TarFile("delivered", d) : d \in RecordDirs}}
    /\ relDir = [p \in RelPaths(entry) |-> NoFile]
    /\ scratch = {}
    /\ last = NoCall
    /\ run = NoRun
    /\ ret = NoRet

NextPhases == ProcessImageUtilsTraced
SpecPhases == InitPhases /\ [][NextPhases]_vars

\* ------------------------------------------------------------------- claims
RequiredBy(manifest) == HashesOf(read_layers_from_manifest(manifest))

\* C1: round trip (utils.py): for layer sets old and new (export trees whose
\* blobs are the layers their manifests list), process_image on the complete
\* archive that generate_diff built from them, against the baseline old,
\* succeeds unless a call raises, and the reconstructed tree holds exactly
\* the layers new's manifest lists.
IsLayerSet(tree) == tree.blobs = RequiredBy(tree.manifest)

C1_RoundTrip ==
    LET d   == outDir[utils_diff_tar(entry)]
        rel == relDir[utils_updated_diff_tar(entry)]
    IN  (/\ last.op = "utils.process_image"
         /\ last.outcome # "raised"
         /\ IsLayerSet(engine.old) /\ IsLayerSet(engine.new)
         /\ d.exists /\ d.complete /\ d.by = "utils.generate_diff")
        => /\ last.outcome = "ok"
           /\ rel.exists
           /\ rel.dir.blobs = RequiredBy(engine.new.manifest)

\* C2: whenever main.process_image succeeds, the blobs of the sealed tree are
\* exactly the layers the manifest shipped in the archive requires.
C2_ExactlyRequired ==
    LET d   == outDir[main_diff_tar(entry)]
        rel == relDir[main_updated_diff_tar(entry)]
    IN  (last.op = "main.process_image" /\ last.outcome = "ok")
        => rel.dir.blobs = RequiredBy(d.dir.manifest)

\* C3: when a layer the shipped manifest requires is in neither the archive's
\* blobs nor the old version, main.process_image fails and the release path
\* holds no archive.
C3_MissingLayerFatal ==
    LET d   == outDir[main_diff_tar(entry)]
        rel == relDir[main_updated_diff_tar(entry)]
    IN  (/\ last.op = "main.process_image"
         /\ d.exists /\ d.dir.hasManifest
         /\ RequiredBy(d.dir.manifest) \ (d.dir.blobs \cup engine.old.blobs) # {})
        => last.outcome # "ok" /\ ~rel.exists

\* C4: the DiffRecord that save_differences serialized has, as sets,
\* added = new - old and removed = old - new, each layer once; so added is
\* disjoint from old and new - added is within old.
C4_DiffRecord ==
    \A p \in DOMAIN outDir :
        LET diff == outDir[p].dir.diff
            old  == read_from_blobs(engine.old)
            new  == read_from_blobs(engine.new)
        IN  diff.present =>
              /\ Range(diff.added) = new \ old
              /\ Range(diff.removed) = old \ new
              /\ Len(diff.added) = Cardinality(new \ old)
              /\ Len(diff.removed) = Cardinality(old \ new)
              /\ Range(diff.added) \cap old = {}
              /\ (new \ Range(diff.added)) \subseteq old

C4_Witness ==
    \E p \in DOMAIN outDir :
        /\ outDir[p].dir.diff.present
        /\ outDir[p].dir.diff.added # <<>>
        /\ outDir[p].dir.diff.removed # <<>>

\* C5: in every archive utils.generate_diff wrote, each layer the DiffRecord
\* lists as added has its blob in the archive under blobs/sha256.
C5_AddedBlobsPresent ==
    \A p \in DOMAIN outDir :
        LET f == outDir[p]
        IN  (f.exists /\ f.by = "utils.generate_diff" /\ f.dir.diff.present)
            => /\ f.dir.blobsDir
               /\ HashesOf(Range(f.dir.diff.added)) \subseteq f.dir.blobs

\* an archive whose write stopped after the DiffRecord, with two added layers
C5_Witness ==
    \E p \in DOMAIN outDir :
        /\ outDir[p].exists /\ outDir[p].by = "utils.generate_diff"
        /\ ~outDir[p].complete
        /\ outDir[p].dir.diff.present
        /\ Len(outDir[p].dir.diff.added) >= 2

\* C6: an archive generate_diff wrote holds blobs only of layers in
\* new - old; no blob of a layer of the old version's layer set is in it.
C6_MinimalDelta ==
    \A p \in DOMAIN outDir :
        LET f == outDir[p]
        IN  /\ (f.exists /\ f.by = "utils.generate_diff")
               => /\ f.dir.blobs \subseteq engine.new.blobs \ engine.old.blobs
                  /\ f.dir.blobs \cap engine.old.blobs = {}
            /\ (f.exists /\ f.by = "main.generate_diff")
               => /\ f.dir.blobs \subseteq
                        RequiredBy(engine.new.manifest) \ RequiredBy(engine.old.manifest)
                  /\ f.dir.blobs \cap RequiredBy(engine.old.manifest) = {}

C6_Witness ==
    \E p \in DOMAIN outDir :
        /\ outDir[p].exists /\ outDir[p].complete /\ outDir[p].by = "main.generate_diff"
        /\ outDir[p].dir.blobs # {}
        /\ RequiredBy(engine.new.manifest) \cap RequiredBy(engine.old.manifest) # {}

\* C7: generate_diff run twice on the same inputs leaves the same archive:
\* a second successful run does not change the file the first one wrote.
C7_Idempotent ==
    [][(/\ last.op = "utils.generate_diff" /\ last.outcome = "ok"
        /\ last'.op = "utils.generate_diff" /\ last'.outcome = "ok")
       => outDir' = outDir]_vars

\* C8: when generate_diff fails, nothing partial is at the final archive
\* path: a file there is always a completely written archive.
C8_NothingPartial ==
    \A p \in DOMAIN outDir : outDir[p].exists => outDir[p].complete

\* C9: when generate_diff or process_image has returned, on any exit path,
\* every scratch directory it created is deleted.
C9_ScratchReleased == scratch = {}

\* C10: utils.generate_diff writes, and utils.process_image reads, exactly
\* <dir>/<image with each "/" and "\" replaced by "_">_diff_<tag2>.tar.
ExpectedName(image) ==
    [i \in 1..Len(image) |-> IF image[i] \in {"/", "\\"} THEN "_" ELSE image[i]]
ExpectedPath(e) ==
    <<e.diff_output_dir, ExpectedName(e.image) \o <<"_diff_">> \o e.tag2 \o <<".tar">>>>

C10_Naming ==
    /\ last.op \in {"utils.generate_diff", "utils.process_image"}
          => last.diff_tar = ExpectedPath(entry)
    /\ \A p \in DOMAIN outDir :
          (outDir[p].exists /\ outDir[p].by = "utils.generate_diff") => p = ExpectedPath(entry)
    /\ (/\ last.op = "utils.process_image"
        /\ ExpectedPath(entry) \in DOMAIN outDir
        /\ outDir[ExpectedPath(entry)].exists)
          => last.outcome = "ok"
    /\ (last.op = "utils.generate_diff" /\ last.outcome = "ok")
          => ExpectedPath(entry) \in DOMAIN outDir /\ outDir[ExpectedPath(entry)].exists

C10_Witness ==
    /\ last.op = "utils.process_image" /\ last.outcome = "ok"
    /\ "/" \in Range(entry.image) /\ "\\" \in Range(entry.image)
    /\ entry.diff_output_dir # DIFF_OUTPUT_DIR

\* C11: an entry whose generate_diff or process_image fails does not end the
\* run: a run of the main loop in --dev or --target mode stops only once it
\* is past the last entry of the list.
C11_RunContinues ==
    (run.option \in {"--dev", "--target"} /\ run.status \in {"finished", "aborted"})
        => run.pos > Len(run.list)

\* C12: a run that has ended has a failure exit status exactly when the call
\* for at least one entry failed (raised, or logged an error and returned).
C12_ExitStatus ==
    (run.option \in {"--dev", "--target"} /\ run.status \in {"finished", "aborted"})
        => (run.exit # 0 <=> run.failed # {})

\* C13: an entry whose image, old version or new version is missing or empty
\* is skipped: the step that handles it calls nothing, leaves the output
\* directory, the release directory and the scratch space as they are, and
\* the run goes on with the next entry.
IsMalformedEntry(e) == \E k \in Keys : k \notin DOMAIN e \/ Len(e[k]) = 0

C13_MalformedSkipped ==
    [][(/\ run.status = "running"
        /\ run.pos <= Len(run.list)
        /\ IsMalformedEntry(run.list[run.pos]))
       => /\ last' = last
          /\ run'.called = run.called
          /\ outDir' = outDir /\ relDir' = relDir /\ scratch' = scratch
          /\ run'.status = "running"
          /\ run'.pos = run.pos + 1]_vars

\* a malformed first entry was passed over and the second entry was processed
C13_Witness ==
    /\ Len(run.list) >= 2
    /\ IsMalformedEntry(run.list[1])
    /\ run.called = {2}
    /\ last.outcome = "ok"

\* C16: in --target mode no step of the run changes a file of the diff output
\* directory, whether the call succeeds or fails.
C16_OutputDirUnchanged ==
    [][run.option = "--target" => outDir' = outDir]_vars

\* a --target run with one call that failed and one that wrote a release
C16_Witness ==
    /\ run.option = "--target"
    /\ Cardinality(run.called) = 2
    /\ Cardinality(run.failed) = 1
    /\ \E p \in DOMAIN relDir : relDir[p].exists /\ relDir[p].complete
    /\ \E p \in DOMAIN outDir : outDir[p].exists

\* C14: no change: when old = new is a set of two layers, the archive
\* main.generate_diff wrote holds no blob, only the manifest and the
\* repositories record of the new version, and main.process_image on it
\* against that baseline succeeds, unless a call raises, with a tree whose
\* blobs are exactly the two layers.
C14_NoChange ==
    LET d   == outDir[main_diff_tar(entry)]
        rel == relDir[main_updated_diff_tar(entry)]
        S   == engine.old.blobs
    IN  (/\ IsLayerSet(engine.old) /\ IsLayerSet(engine.new)
         /\ engine.new.blobs = S
         /\ Cardinality(S) = 2)
        => /\ (d.exists /\ d.complete /\ d.by = "main.generate_diff")
              => /\ d.dir.blobs = {}
                 /\ d.dir.hasManifest /\ d.dir.manifest = engine.new.manifest
                 /\ d.dir.aux = [NoAux EXCEPT !["repositories"] = "new"]
                 /\ ~d.dir.diff.present
           /\ (/\ last.op = "main.process_image" /\ last.outcome # "raised"
               /\ d.exists /\ d.complete)
              => /\ last.outcome = "ok"
                 /\ rel.exists /\ rel.complete
                 /\ rel.dir.blobs = S
                 /\ rel.dir.manifest = engine.new.manifest

C14_Witness ==
    /\ Cardinality(engine.old.blobs) = 2
    /\ engine.new.blobs = engine.old.blobs
    /\ last.op = "main.process_image" /\ last.outcome = "ok"
    /\ outDir[main_diff_tar(entry)].dir.blobs = {}
    /\ relDir[main_updated_diff_tar(entry)].dir.blobs = engine.old.blobs

\* C15: the removed list is informational only: on an archive with any
\* removed list, process_image (utils.py, main_old.py) gives the outcome and
\* the sealed tree it gives on the same archive with an empty removed list,
\* so two archives that differ only in removed are treated alike; and after
\* a success every blob of the archive and every top-level file of the
\* baseline is in the sealed tree, removed or not, and the archive is still
\* in place.
WithRemoved(f, r) == [f EXCEPT !.dir.diff.removed = r]

C15_RemovedInformational ==
    LET d    == outDir[utils_diff_tar(entry)]
        prev == relDir[utils_updated_diff_tar(entry)]
        old  == utils_old_dir(engine.old)
    IN  /\ utils_process_image(engine.old, d, prev, "none", 0)
             = utils_process_image(engine.old, WithRemoved(d, <<>>), prev, "none", 0)
        /\ main_old_process_image(engine.old, d, prev, "none", 0)
             = main_old_process_image(engine.old, WithRemoved(d, <<>>), prev, "none", 0)
        /\ (last.op \in {"utils.process_image", "main_old.process_image"} /\ last.outcome = "ok")
             => /\ d.dir.blobs \subseteq prev.dir.blobs
                /\ prev.dir.aux = old.aux
                /\ d.exists /\ d.complete

\* a successful reconstruction whose archive lists as removed a layer whose
\* blob the archive and the sealed tree hold
C15_Witness ==
    LET d   == outDir[utils_diff_tar(entry)]
        rel == relDir[utils_updated_diff_tar(entry)]
    IN  /\ last.op \in {"utils.process_image", "main_old.process_image"}
        /\ last.outcome = "ok"
        /\ HashesOf(Range(d.dir.diff.removed)) \cap rel.dir.blobs # {}
        /\ d.dir.diff.added # <<>>

\* C17: utils.generate_diff does not silently replace an archive that is
\* already at its output path: after a call, a complete archive that was
\* there before holds the content it held.
C17_NoSilentOverwrite ==
    [][\A p \in DOMAIN outDir :
         (outDir[p].exists /\ outDir[p].complete /\ last'.op = "utils.generate_diff")
         => /\ outDir'[p].exists /\ outDir'[p].complete
            /\ outDir'[p].dir = outDir[p].dir]_vars

\* C18: read_from_blobs raises exactly when the directory it is given has no
\* blobs/sha256 subdirectory; otherwise it returns the layers stored there,
\* one path per blob; in both cases the directory and every other file are
\* left as they were.
C18_ReadFromBlobs ==
    [][ret'.op = "read_from_blobs"
       => /\ ret'.raised <=> ~ret.tree.blobsDir
          /\ ~ret'.raised => ret'.value = {<<"blobs", "sha256", h>> : h \in ret.tree.blobs}
          /\ ret'.tree = ret.tree
          /\ outDir' = outDir /\ relDir' = relDir /\ scratch' = scratch]_vars

\* the reader raised on a tree that has a manifest but no blobs/sha256
C18_Witness ==
    /\ ret.op = "read_from_blobs"
    /\ ret.raised
    /\ ~ret.tree.blobsDir /\ ret.tree.hasManifest

\* C19: read_layers_from_manifest never returns an empty set of layers as a
\* normal result: on a manifest that references no layer it raises.
C19_NoEmptyRequiredSet ==
    (ret.op = "read_layers_from_manifest" /\ ~ret.raised) => ret.value # {}

\* C20: entries with distinct image names have distinct archive paths: the
\* path utils.generate_diff wrote, or utils.process_image read, for the
\* entry is not the archive path of an entry for any other image name with
\* the same tags and directories, and neither is the release path.
C20_DistinctPaths ==
    last.op \in {"utils.generate_diff", "utils.process_image"}
    => \A i \in Names :
         i # entry.image
         => /\ utils_diff_tar([entry EXCEPT !.image = i]) # last.diff_tar
            /\ utils_updated_diff_tar([entry EXCEPT !.image = i]) # utils_updated_diff_tar(entry)

\* C21: utils.process_image takes the layers to reconcile from the manifest
\* shipped in the archive: after a call that did not fail, every layer that
\* manifest lists and the archive holds no blob of has its blob in the sealed
\* tree, copied from the old version.
C21_RequiredFromManifest ==
    LET d   == outDir[utils_diff_tar(entry)]
        rel == relDir[utils_updated_diff_tar(entry)]
    IN  (/\ last.op = "utils.process_image" /\ last.outcome = "ok"
         /\ d.exists /\ d.dir.hasManifest)
        => \A h \in RequiredBy(d.dir.manifest) \ d.dir.blobs :
             rel.exists /\ h \in rel.dir.blobs

\* C22: sealing order: an archive that process_image wrote at the release
\* path is the archive of a tree for which the reconciliation was completed:
\* no layer that the manifest in it requires is missing from its blobs.
C22_SealedAfterReconciled ==
    \A p \in DOMAIN relDir :
        LET rel == relDir[p]
        IN  (rel.exists /\ rel.by \in {"utils.process_image", "main.process_image"})
            => RequiredBy(rel.dir.manifest) \subseteq rel.dir.blobs

\* C23: every invocation of utils.process_image goes through Start,
\* ExtractingArchive, ExtractingBaseline, Reconciling, Sealing, Done in that
\* order, or ends in Failed out of Reconciling; it ends in no other way.
C23_StateMachine ==
    last.op = "utils.process_image"
    => \/ last.phases = <<"Start", "ExtractingArchive", "ExtractingBaseline",
                          "Reconciling", "Sealing", "Done">>
       \/ last.phases = <<"Start", "ExtractingArchive", "ExtractingBaseline",
                          "Reconciling", "Failed">>

\* C24: an auxiliary file that the diff archive supplies is the one the
\* sealed tree holds: after utils.process_image succeeded, each top-level
\* file of the archive (manifest.json, repositories) is in the tree with the
\* archive's content, not with the content of the old version's file of
\* that name.
C24_AuxNotOverwritten ==
    LET d   == outDir[utils_diff_tar(entry)]
        rel == relDir[utils_updated_diff_tar(entry)]
    IN  (last.op = "utils.process_image" /\ last.outcome = "ok")
        => /\ d.dir.hasManifest => rel.dir.manifest = d.dir.manifest
           /\ \A n \in AuxNames :
                d.dir.aux[n] # "absent" => rel.dir.aux[n] = d.dir.aux[n]

\* C25: the tree utils.process_image sealed holds nothing but blobs of
\* layers the shipped manifest requires, each taken from the archive or from
\* the old tree, manifest.json and repositories: no other top-level file of
\* the old version's export tree is in it.
C25_NothingElseIntroduced ==
    LET d   == outDir[utils_diff_tar(entry)]
        rel == relDir[utils_updated_diff_tar(entry)]
    IN  (last.op = "utils.process_image" /\ last.outcome = "ok")
        => /\ rel.dir.blobs \subseteq d.dir.blobs \cup engine.old.blobs
           /\ rel.dir.blobs \subseteq RequiredBy(rel.dir.manifest)
           /\ \A n \in AuxNames \ {"repositories"} : rel.dir.aux[n] = "absent"
           /\ ~rel.dir.diff.present

\* C28: the repositories record in the tree utils.process_image sealed is
\* the record of the new version that generate_diff put into the archive.
C28_RepositoriesOfNewVersion ==
    LET d   == outDir[utils_diff_tar(entry)]
        rel == relDir[utils_updated_diff_tar(entry)]
    IN  (/\ last.op = "utils.process_image" /\ last.outcome = "ok"
         /\ d.by = "utils.generate_diff" /\ d.complete)
        => rel.dir.aux["repositories"] = "new"

\* C26: main.process_image reconciles the layers of every entry of the
\* shipped manifest, the set read_layers_from_manifest returns for it: the
\* list it loops over has those layers, and after a success each of them has
\* its blob in the sealed tree.
C26_EveryEntryReconciled ==
    LET d   == outDir[main_diff_tar(entry)]
        rel == relDir[main_updated_diff_tar(entry)]
    IN  (last.op = "main.process_image" /\ last.outcome = "ok")
        => /\ Range(main_layers(d.dir)) = read_layers_from_manifest(d.dir.manifest)
           /\ read_layers_from_manifest(d.dir.manifest) \subseteq read_from_blobs(rel.dir)

\* C27: the manifest.json in an archive process_image (utils.py, main.py)
\* sealed is the manifest the diff archive shipped, which is the new
\* version's; and a release archive whose write stopped early holds that
\* manifest or none. It is never the manifest of the old tree, which the
\* copy of the old tree's top-level files puts into the new tree first.
C27_ManifestOfArchive ==
    LET d == outDir[utils_diff_tar(entry)]
    IN  /\ \A p \in DOMAIN relDir :
             (relDir[p].exists /\ relDir[p].dir.hasManifest)
             => /\ relDir[p].dir.manifest = d.dir.manifest
                /\ relDir[p].dir.manifest = engine.new.manifest
        /\ (last.op \in {"utils.process_image", "main.process_image"} /\ last.outcome = "ok")
             => \A p \in DOMAIN relDir :
                  relDir[p].exists /\ relDir[p].complete /\ relDir[p].dir.hasManifest

\* main.process_image sealed a tree after copying a layer from an old tree
\* whose manifest differs from the shipped one
C27_Witness ==
    LET rel == relDir[main_updated_diff_tar(entry)]
    IN  /\ last.op = "main.process_image" /\ last.outcome = "ok"
        /\ rel.by = "main.process_image"
        /\ engine.old.manifest # engine.new.manifest
        /\ engine.old.blobs \cap engine.new.blobs # {}
        /\ rel.dir.manifest = engine.new.manifest

====
